---- MODULE Spec2Model ----
(***************************************************************************)
(* A model of examples/text-generation/text-generation.ipynb: a notebook  *)
(* whose code cells are run top to bottom in one kernel.  Every statement  *)
(* of a code cell is one step.  A statement is either plain Python (an     *)
(* assignment, an SDK call that may raise) or an IPython `!` shell escape  *)
(* (a command that may exit non-zero; the escape never raises, so the      *)
(* cell goes on to its next statement).  An exception ends the run.        *)
(***************************************************************************)
EXTENDS Integers, Sequences, FiniteSets, TLC

VARIABLES
    env,            \* os.environ after load_dotenv: name -> value
    pc,             \* label of the next statement the kernel executes
    log,            \* the statements executed so far, with their outcome
    py,             \* the kernel's namespace: Python variable -> value
    call,           \* arguments of the last utils.get_docker_run_command call
    out,            \* what the cells have displayed to the user
    assets,         \* files in ./model_assets
    archive,        \* ./model_assets.tar.gz exists
    s3,             \* objects in object storage: <<bucket, key>>
    sm_models,      \* names of the SageMaker Model resources
    endpoints,      \* the SageMaker endpoints
    src_version,    \* revision of ./dashboard/src on the notebook instance
    images,         \* local docker image store: name -> image
    tags,           \* local docker image store: registry reference -> image
    logged_in,      \* docker is logged in to the registry
    containers,     \* local containers started by a docker run in progress
    ecr,            \* images in the registry: reference -> image
    desired_count   \* desired task count of the ECS service

vars == <<env, pc, log, py, call, out, assets, archive, s3, sm_models, endpoints,
          src_version, images, tags, logged_in, containers, ecr, desired_count>>

world == <<assets, archive, s3, sm_models, endpoints, src_version, images, tags,
           logged_in, containers, ecr, desired_count>>

----------------------------------------------------------------------------
(* Bounds of the model.                                                    *)

\* how many statements of one run may fail for an external reason
MaxFailures == 1
\* how many times the user edits app.py while the development container runs
MaxEdits == 1

\* values the environment may give to the identifiers the notebook reads
Buckets == {"bucket-a", "bucket-b"}
ModelNames == {"model-a", "model-b"}
Hosts == {"dash.example.com", "alb.example.com"}
\* inputs of the two helpers
Ports == {80, 443, 3000, 8080, 8501, 8888}
ImageNames == {"dashboard", "other"}
MountDirs == {"", "./dashboard/src", "./src"}

----------------------------------------------------------------------------
(* Program constants.                                                      *)

DefaultPort == 8501
ContainerPort == 80
InitialInstanceCount == 1
ScaleUpCount == 2
ScaleDownCount == 0
StackDesiredCount == 0

ArchiveName == "model_assets.tar.gz"
\* local_dir_mount when the caller gives none
NoMount == ""

----------------------------------------------------------------------------
(* The notebook's code cells, statement by statement, in file order.       *)

Statements ==
    << [l |-> "import",          cell |-> 1,  step |-> 0],
       [l |-> "dotenv",          cell |-> 3,  step |-> 1],
       [l |-> "tokenizer",       cell |-> 6,  step |-> 2],
       [l |-> "lm",              cell |-> 6,  step |-> 2],
       [l |-> "bucket",          cell |-> 8,  step |-> 3],
       [l |-> "tar",             cell |-> 8,  step |-> 3],
       [l |-> "upload",          cell |-> 8,  step |-> 3],
       [l |-> "define",          cell |-> 10, step |-> 4],
       [l |-> "deploy",          cell |-> 12, step |-> 4],
       [l |-> "image_name",      cell |-> 15, step |-> 5],
       [l |-> "build",           cell |-> 16, step |-> 5],
       [l |-> "port",            cell |-> 18, step |-> 5],
       [l |-> "dev_prepare",     cell |-> 20, step |-> 5],
       [l |-> "dev_echo",        cell |-> 20, step |-> 5],
       [l |-> "dev_run",         cell |-> 20, step |-> 5],
       [l |-> "rebuild",         cell |-> 24, step |-> 5],
       [l |-> "test_prepare",    cell |-> 26, step |-> 5],
       [l |-> "test_echo",       cell |-> 26, step |-> 5],
       [l |-> "test_run",        cell |-> 26, step |-> 5],
       [l |-> "registry_env",    cell |-> 30, step |-> 6],
       [l |-> "tag",             cell |-> 32, step |-> 6],
       [l |-> "login",           cell |-> 32, step |-> 6],
       [l |-> "push",            cell |-> 32, step |-> 6],
       [l |-> "ecs_env",         cell |-> 35, step |-> 7],
       [l |-> "scale_up",        cell |-> 37, step |-> 7],
       [l |-> "url_env",         cell |-> 39, step |-> 7],
       [l |-> "cname",           cell |-> 41, step |-> 7],
       [l |-> "scale_down",      cell |-> 46, step |-> 8],
       [l |-> "delete_endpoint", cell |-> 47, step |-> 8],
       [l |-> "delete_model",    cell |-> 47, step |-> 8] >>

Index(l) == CHOOSE i \in 1..Len(Statements) : Statements[i].l = l
CellOf(l) == Statements[Index(l)].cell
StepOf(l) == Statements[Index(l)].step

\* the cells in another order: the clean-up's scale-down ahead of the scale-up
FollowsCleanUpFirst(l) ==
    CASE l = "ecs_env" -> "scale_down"
      [] l = "scale_down" -> "scale_up"
      [] l = "scale_up" -> "url_env"
      [] l = "cname" -> "delete_endpoint"
      [] Index(l) = Len(Statements) -> "done"
      [] OTHER -> Statements[Index(l) + 1].l

\* the statement the kernel executes after statement l
Follows(l) ==
    IF Index(l) = Len(Statements) THEN "done" ELSE Statements[Index(l) + 1].l

----------------------------------------------------------------------------
(* Outcomes of statements.                                                 *)

NumFailed(s) == Cardinality({i \in 1..Len(s) : ~s[i].ok})

\* The outcomes a call to an external tool or service can have, given that
\* what it needs is there (pre): it cannot succeed without it, and it may
\* fail for a reason of its own.
Outcomes(pre) ==
    {ok \in BOOLEAN : (ok => pre) /\ (~ok => (~pre \/ NumFailed(log) < MaxFailures))}

Entry(l, ok, arg) == [op |-> l, cell |-> CellOf(l), ok |-> ok, arg |-> arg]

\* A plain Python statement: on an exception the kernel reports it and the
\* run ends, nothing after the statement is executed.
Python(l, ok, arg) ==
    /\ log' = Append(log, Entry(l, ok, arg))
    /\ pc' = IF ok THEN Follows(l) ELSE "aborted"

\* An IPython shell escape: the exit status of the command is not looked at,
\* the cell goes on with its next statement.
Shell(l, ok, arg) ==
    /\ log' = Append(log, Entry(l, ok, arg))
    /\ pc' = Follows(l)

Bind(name, value) == py' = [n \in DOMAIN py \cup {name} |-> IF n = name THEN value ELSE py[n]]

----------------------------------------------------------------------------
(* The two helpers of utils, which the notebook imports.  Text is a        *)
(* sequence of characters or of longer pieces; a number is formatted in    *)
(* decimal.                                                                *)

DigitChars == <<"0", "1", "2", "3", "4", "5", "6", "7", "8", "9">>

RECURSIVE Digits(_)
Digits(n) ==
    IF n < 10 THEN <<DigitChars[n + 1]>>
    ELSE Digits(n \div 10) \o <<DigitChars[(n % 10) + 1]>>

\* https://{notebook-url}/proxy/{port}/
get_dashboard_url(p) ==
    <<"https://", "{notebook-url}", "/proxy/">> \o Digits(p) \o <<"/">>

PortMapping(p) == Digits(p) \o <<":">> \o Digits(ContainerPort)

get_docker_run_command(p, image, local_dir_mount, debug) ==
    << <<"docker">>, <<"run">>, <<"-p">>, PortMapping(p),
       <<"-e">>, <<"AWS_CONTAINER_CREDENTIALS_RELATIVE_URI">> >>
    \o (IF local_dir_mount # NoMount
        THEN << <<"-v">>, <<local_dir_mount, ":", "/usr/src/app/src">> >>
        ELSE << >>)
    \o (IF debug THEN << <<"-e">>, <<"DASHBOARD_DEBUG=true">> >> ELSE << >>)
    \o << <<image>> >>

----------------------------------------------------------------------------
(* Reading text back.                                                      *)

IsDigit(c) == \E i \in 1..10 : DigitChars[i] = c
DigitValue(c) == (CHOOSE i \in 1..10 : DigitChars[i] = c) - 1

RECURSIVE Number(_)
Number(ds) ==
    IF Len(ds) = 0 THEN 0
    ELSE 10 * Number(SubSeq(ds, 1, Len(ds) - 1)) + DigitValue(ds[Len(ds)])

\* the pieces of text t from position i on, as far as they are digits
RECURSIVE DigitRun(_, _)
DigitRun(t, i) ==
    IF i > Len(t) \/ ~IsDigit(t[i]) THEN << >> ELSE <<t[i]>> \o DigitRun(t, i + 1)

Contains(t, piece) ==
    \E i \in 1..(Len(t) - Len(piece) + 1) : SubSeq(t, i, i + Len(piece) - 1) = piece

\* the port a dashboard URL leads to: the number after /proxy/
UrlHasPort(u) ==
    \E i \in 1..Len(u) : u[i] = "/proxy/" /\ Len(DigitRun(u, i + 1)) > 0
UrlPort(u) ==
    LET i == CHOOSE j \in 1..Len(u) : u[j] = "/proxy/" IN Number(DigitRun(u, i + 1))

\* the local port a docker run command publishes: -p <local>:<container>
PublishedAt(c) == {i \in 1..(Len(c) - 1) : c[i] = <<"-p">>}
CommandPort(c) ==
    LET i == CHOOSE j \in PublishedAt(c) : TRUE IN Number(DigitRun(c[i + 1], 1))
CommandContainerPort(c) ==
    LET i == CHOOSE j \in PublishedAt(c) : TRUE
        local == DigitRun(c[i + 1], 1)
    IN  Number(DigitRun(c[i + 1], Len(local) + 2))
CommandImage(c) == c[Len(c)][1]
HasMount(c) == \E i \in 1..(Len(c) - 1) : c[i] = <<"-v">>
MountedDir(c) == LET i == CHOOSE j \in 1..(Len(c) - 1) : c[j] = <<"-v">> IN c[i + 1][1]
HasDebug(c) ==
    \E i \in 1..(Len(c) - 1) : c[i] = <<"-e">> /\ c[i + 1] = <<"DASHBOARD_DEBUG=true">>

----------------------------------------------------------------------------
(* The state before the first cell runs: the stack has been created (its   *)
(* service has a desired count of 0), nothing of the notebook exists yet.  *)

NoCall == [site |-> "none", port |-> 0, image |-> "", dir |-> NoMount, debug |-> FALSE]

Environments ==
    [DASHBOARD_S3_BUCKET : Buckets,
     DASHBOARD_SAGEMAKER_MODEL : ModelNames,
     AWS_ACCOUNT_ID : {"123456789012"},
     AWS_REGION : {"eu-west-1"},
     DASHBOARD_ECR_REPOSITORY : {"dashboard-repository"},
     DASHBOARD_ECS_CLUSTER : {"dashboard-cluster"},
     DASHBOARD_ECR_SERVICE : {"dashboard-service"},
     DASHBOARD_URL : Hosts,
     DASHBOARD_ALB : Hosts]

Fresh ==
    /\ log = << >>
    /\ py = [n \in {} |-> TRUE]
    /\ call = NoCall
    /\ out = << >>
    /\ assets = {}
    /\ archive = FALSE
    /\ s3 = {}
    /\ sm_models = {}
    /\ endpoints = {}
    /\ src_version = 0
    /\ images = [n \in {} |-> TRUE]
    /\ tags = [n \in {} |-> TRUE]
    /\ logged_in = FALSE
    /\ containers = {}
    /\ ecr = [n \in {} |-> TRUE]
    /\ desired_count = StackDesiredCount

Init ==
    /\ env \in Environments
    /\ pc = "import"
    /\ Fresh

----------------------------------------------------------------------------
(* Configuration, model assets, archive.                                   *)

\* cell 1: the imports
Import ==
    /\ pc = "import"
    /\ Python("import", TRUE, << >>)
    /\ UNCHANGED <<env, py, call, out, world>>

\* cell 3: load_dotenv() when ../../.env exists; env is the environment after it
LoadDotenv ==
    /\ pc = "dotenv"
    /\ Python("dotenv", TRUE, << >>)
    /\ UNCHANGED <<env, py, call, out, world>>

\* cell 6, line 1: AutoTokenizer.from_pretrained("distilgpt2", cache_dir='./model_assets')
FetchTokenizer ==
    /\ pc = "tokenizer"
    /\ \E ok \in Outcomes(TRUE) :
        /\ Python("tokenizer", ok, <<"distilgpt2">>)
        /\ assets' = IF ok THEN assets \cup {"tokenizer"} ELSE assets
        /\ IF ok THEN Bind("tokenizer", [class |-> "AutoTokenizer", name |-> "distilgpt2"])
                 ELSE UNCHANGED py
    /\ UNCHANGED <<env, call, out, archive, s3, sm_models, endpoints, src_version,
                   images, tags, logged_in, containers, ecr, desired_count>>

\* cell 6, line 2: AutoModelWithLMHead.from_pretrained("distilgpt2", cache_dir='./model_assets')
FetchModel ==
    /\ pc = "lm"
    /\ \E ok \in Outcomes(TRUE) :
        /\ Python("lm", ok, <<"distilgpt2">>)
        /\ assets' = IF ok THEN assets \cup {"model"} ELSE assets
        /\ IF ok THEN Bind("model", [class |-> "AutoModelWithLMHead", name |-> "distilgpt2"])
                 ELSE UNCHANGED py
    /\ UNCHANGED <<env, call, out, archive, s3, sm_models, endpoints, src_version,
                   images, tags, logged_in, containers, ecr, desired_count>>

\* cell 8, line 1: DASHBOARD_S3_BUCKET = os.environ['DASHBOARD_S3_BUCKET']
ReadBucket ==
    /\ pc = "bucket"
    /\ Python("bucket", TRUE, << >>)
    /\ Bind("DASHBOARD_S3_BUCKET", env.DASHBOARD_S3_BUCKET)
    /\ UNCHANGED <<env, call, out, world>>

\* cell 8, line 2: !(cd model_assets && tar -czf ../model_assets.tar.gz *)
TarArchive ==
    /\ pc = "tar"
    /\ \E ok \in Outcomes(assets # {}) :
        /\ Shell("tar", ok, <<ArchiveName>>)
        /\ archive' = (archive \/ ok)
    /\ UNCHANGED <<env, py, call, out, assets, s3, sm_models, endpoints, src_version,
                   images, tags, logged_in, containers, ecr, desired_count>>

\* where aws s3 cp ./model_assets.tar.gz s3://{DASHBOARD_S3_BUCKET} puts the
\* archive: a destination that names only the bucket keeps the file's name
UploadDestination == <<py["DASHBOARD_S3_BUCKET"], ArchiveName>>

\* cell 8, line 3: !aws s3 cp ./model_assets.tar.gz s3://{DASHBOARD_S3_BUCKET}
UploadArchive ==
    /\ pc = "upload"
    /\ \E ok \in Outcomes(archive) :
        /\ Shell("upload", ok, UploadDestination)
        /\ s3' = IF ok THEN s3 \cup {UploadDestination} ELSE s3
    /\ UNCHANGED <<env, py, call, out, assets, archive, sm_models, endpoints,
                   src_version, images, tags, logged_in, containers, ecr, desired_count>>

----------------------------------------------------------------------------
(* Model definition and endpoint.                                          *)

\* cell 10: the arguments of PyTorchModel(...)
ModelDefinition ==
    [name |-> env.DASHBOARD_SAGEMAKER_MODEL,      \* model_name, read on the line before
     model_data |-> <<py["DASHBOARD_S3_BUCKET"], ArchiveName>>,
     entry_point |-> "entry_point.py",
     source_dir |-> "./model",
     framework_version |-> "1.5.0",
     py_version |-> "py3",
     code_location |-> <<py["DASHBOARD_S3_BUCKET"], "code">>]

\* cell 10: model_name = os.environ[...]; model = PyTorchModel(...), whose
\* role argument calls sagemaker.get_execution_role()
DefineModel ==
    /\ pc = "define"
    /\ \E ok \in Outcomes(TRUE) :
        /\ Python("define", ok, <<ModelDefinition.name, ModelDefinition.model_data>>)
        /\ py' = [n \in DOMAIN py \cup {"model_name", "model"} |->
                    IF n = "model_name" THEN env.DASHBOARD_SAGEMAKER_MODEL
                    ELSE IF n = "model" /\ ok THEN ModelDefinition
                    ELSE py[n]]
    /\ UNCHANGED <<env, call, out, world>>

\* cell 12: the arguments of model.deploy(...)
DeployArguments ==
    [endpoint_name |-> py["model_name"],
     instance_type |-> "ml.c5.xlarge",
     initial_instance_count |-> InitialInstanceCount]

\* cell 12: predictor = model.deploy(...): creates the Model resource and
\* the endpoint, and waits until the endpoint is in service
Deploy ==
    /\ pc = "deploy"
    /\ LET a == DeployArguments
           m == py["model"]
           pre == m.model_data \in s3 /\ ~(\E e \in endpoints : e.name = a.endpoint_name)
       IN  \E ok \in Outcomes(pre) :
            /\ Python("deploy", ok, <<a.endpoint_name, a.instance_type, a.initial_instance_count>>)
            /\ sm_models' = IF ok THEN sm_models \cup {m.name} ELSE sm_models
            /\ endpoints' = IF ok
                            THEN endpoints \cup {[name |-> a.endpoint_name,
                                                  instance_type |-> a.instance_type,
                                                  count |-> a.initial_instance_count,
                                                  model |-> m.name]}
                            ELSE endpoints
            /\ IF ok THEN Bind("predictor", [endpoint |-> a.endpoint_name, model |-> m.name])
                     ELSE UNCHANGED py
    /\ UNCHANGED <<env, call, out, assets, archive, s3, src_version, images, tags,
                   logged_in, containers, ecr, desired_count>>

----------------------------------------------------------------------------
(* Dashboard development and testing on the notebook instance.             *)

\* cell 15: image_name = 'dashboard'
SetImageName ==
    /\ pc = "image_name"
    /\ Python("image_name", TRUE, << >>)
    /\ Bind("image_name", "dashboard")
    /\ UNCHANGED <<env, call, out, world>>

\* a build that passes the image name where the model name belongs
BuildArgumentsImageName ==
    [tag |-> py["image_name"], DASHBOARD_SAGEMAKER_MODEL |-> py["image_name"]]

\* cells 16 and 24: what docker build is given
BuildArguments ==
    [tag |-> py["image_name"], DASHBOARD_SAGEMAKER_MODEL |-> py["model_name"]]

\* cells 16 and 24: !(cd dashboard && docker build -t {image_name} --build-arg ... .)
\* The Dockerfile copies the source files of the moment into the image.
BuildImage(l) ==
    /\ pc = l
    /\ LET a == BuildArguments
       IN  \E ok \in Outcomes(TRUE) :
            /\ Shell(l, ok, <<a.tag, a.DASHBOARD_SAGEMAKER_MODEL>>)
            /\ images' = IF ok
                         THEN [n \in DOMAIN images \cup {a.tag} |->
                                 IF n = a.tag
                                 THEN [model |-> a.DASHBOARD_SAGEMAKER_MODEL, src |-> src_version]
                                 ELSE images[n]]
                         ELSE images
    /\ UNCHANGED <<env, py, call, out, assets, archive, s3, sm_models, endpoints,
                   src_version, tags, logged_in, containers, ecr, desired_count>>

BuildDev == BuildImage("build")
Rebuild == BuildImage("rebuild")

\* cell 18: port = 8501
SetPort ==
    /\ pc = "port"
    /\ Python("port", TRUE, << >>)
    /\ Bind("port", DefaultPort)
    /\ UNCHANGED <<env, call, out, world>>

\* the development call without debug=True
DevArgumentsNoDebug(p, image) ==
    [site |-> "dev", port |-> p, image |-> image, dir |-> "./dashboard/src", debug |-> FALSE]

\* cell 20, line 2: get_docker_run_command(port, image_name, local_dir_mount='./dashboard/src', debug=True)
DevArguments(p, image) ==
    [site |-> "dev", port |-> p, image |-> image, dir |-> "./dashboard/src", debug |-> TRUE]

\* cell 26, line 2: get_docker_run_command(port, image_name)
TestArguments(p, image) ==
    [site |-> "test", port |-> p, image |-> image, dir |-> NoMount, debug |-> FALSE]

CommandFor(a) == get_docker_run_command(a.port, a.image, a.dir, a.debug)

BindRun(u, c) ==
    py' = [n \in DOMAIN py \cup {"url", "command"} |->
             IF n = "url" THEN u ELSE IF n = "command" THEN c ELSE py[n]]

\* the development cell with the URL of the default port, whatever port is
PrepareDevDefaultPort ==
    /\ BindRun(get_dashboard_url(DefaultPort),
               CommandFor(DevArguments(py["port"], py["image_name"])))
    /\ call' = DevArguments(py["port"], py["image_name"])

\* cell 20, lines 1-2: url = utils.get_dashboard_url(port); command = ...
PrepareDev ==
    /\ BindRun(get_dashboard_url(py["port"]),
               CommandFor(DevArguments(py["port"], py["image_name"])))
    /\ call' = DevArguments(py["port"], py["image_name"])

\* cell 26, lines 1-2
PrepareTest ==
    /\ BindRun(get_dashboard_url(py["port"]),
               CommandFor(TestArguments(py["port"], py["image_name"])))
    /\ call' = TestArguments(py["port"], py["image_name"])

DevPrepare ==
    /\ pc = "dev_prepare"
    /\ Python("dev_prepare", TRUE, << >>)
    /\ PrepareDev
    /\ UNCHANGED <<env, out, world>>

TestPrepare ==
    /\ pc = "test_prepare"
    /\ Python("test_prepare", TRUE, << >>)
    /\ PrepareTest
    /\ UNCHANGED <<env, out, world>>

\* cells 20 and 26, line 3: !echo Dashboard URL: {url}
Shown(l) == [cell |-> CellOf(l), kind |-> "Dashboard URL", text |-> py["url"]]

EchoUrl(l) ==
    /\ pc = l
    /\ Shell(l, TRUE, << >>)
    /\ out' = Append(out, Shown(l))
    /\ UNCHANGED <<env, py, call, world>>

DevEcho == EchoUrl("dev_echo")
TestEcho == EchoUrl("test_echo")

\* statement l is the last one the kernel has started
Issued(l) == Len(log) > 0 /\ log[Len(log)].op = l

\* the container a docker run command starts
ContainerOf(l, c) ==
    [cell |-> CellOf(l),
     port |-> CommandPort(c),
     image |-> images[CommandImage(c)],
     mount |-> IF HasMount(c) THEN MountedDir(c) ELSE NoMount,
     debug |-> HasDebug(c)]

\* cells 20 and 26, line 4: !{command}.  docker run stays in the foreground:
\* when it starts the container, the statement goes on until the kernel is
\* interrupted; when it cannot, it returns at once.
RunContainer(l) ==
    /\ pc = l
    /\ ~Issued(l)
    /\ LET c == py["command"]
           pre == /\ CommandImage(c) \in DOMAIN images
                  /\ ~(\E k \in containers : k.port = CommandPort(c))
       IN  \E ok \in Outcomes(pre) :
            /\ log' = Append(log, Entry(l, ok, <<CommandPort(c), CommandImage(c)>>))
            /\ pc' = IF ok THEN l ELSE Follows(l)
            /\ containers' = IF ok THEN containers \cup {ContainerOf(l, c)} ELSE containers
    /\ UNCHANGED <<env, py, call, out, assets, archive, s3, sm_models, endpoints,
                   src_version, images, tags, logged_in, ecr, desired_count>>

\* docker run detached: the statement returns while the container goes on
DevRunDetached ==
    /\ pc = "dev_run"
    /\ LET c == py["command"]
           pre == /\ CommandImage(c) \in DOMAIN images
                  /\ ~(\E k \in containers : k.port = CommandPort(c))
       IN  \E ok \in Outcomes(pre) :
            /\ Shell("dev_run", ok, <<CommandPort(c), CommandImage(c)>>)
            /\ containers' = IF ok THEN containers \cup {ContainerOf("dev_run", c)} ELSE containers
    /\ UNCHANGED <<env, py, call, out, assets, archive, s3, sm_models, endpoints,
                   src_version, images, tags, logged_in, ecr, desired_count>>

DevRunStart == RunContainer("dev_run")
TestRunStart == RunContainer("test_run")

\* 'Kernel' -> 'Interrupt': the command of the running statement is ended and
\* with it its container; the cell is over
Interrupt(l) ==
    /\ pc = l
    /\ Issued(l)
    /\ pc' = Follows(l)
    /\ containers' = {k \in containers : k.cell # CellOf(l)}
    /\ UNCHANGED <<env, log, py, call, out, assets, archive, s3, sm_models, endpoints,
                   src_version, images, tags, logged_in, ecr, desired_count>>

DevInterrupt == Interrupt("dev_run")
TestInterrupt == Interrupt("test_run")

\* the user changes app.py while a container with the source directory
\* mounted shows the dashboard
EditSource ==
    /\ \E k \in containers : k.mount # NoMount
    /\ src_version < MaxEdits
    /\ src_version' = src_version + 1
    /\ UNCHANGED <<env, pc, log, py, call, out, assets, archive, s3, sm_models,
                   endpoints, images, tags, logged_in, containers, ecr, desired_count>>

----------------------------------------------------------------------------
(* Registry upload.                                                        *)

\* cell 30: three identifiers from the environment
ReadRegistryEnv ==
    /\ pc = "registry_env"
    /\ Python("registry_env", TRUE, << >>)
    /\ py' = [n \in DOMAIN py \cup {"AWS_ACCOUNT_ID", "AWS_REGION", "DASHBOARD_ECR_REPOSITORY"} |->
                IF n \in {"AWS_ACCOUNT_ID", "AWS_REGION", "DASHBOARD_ECR_REPOSITORY"}
                THEN env[n] ELSE py[n]]
    /\ UNCHANGED <<env, call, out, world>>

\* cell 32, line 1: {AWS_ACCOUNT_ID}.dkr.ecr.{AWS_REGION}.amazonaws.com/{DASHBOARD_ECR_REPOSITORY}:latest
TagReference ==
    <<py["AWS_ACCOUNT_ID"], ".dkr.ecr.", py["AWS_REGION"], ".amazonaws.com/",
      py["DASHBOARD_ECR_REPOSITORY"], ":", "latest">>

\* cell 32, line 3: the same text, written out again
PushReference ==
    <<py["AWS_ACCOUNT_ID"], ".dkr.ecr.", py["AWS_REGION"], ".amazonaws.com/",
      py["DASHBOARD_ECR_REPOSITORY"], ":", "latest">>

\* cell 32, line 1: !docker tag {image_name} <reference>
TagImage ==
    /\ pc = "tag"
    /\ \E ok \in Outcomes(py["image_name"] \in DOMAIN images) :
        /\ Shell("tag", ok, <<py["image_name"], TagReference>>)
        /\ tags' = IF ok
                   THEN [r \in DOMAIN tags \cup {TagReference} |->
                           IF r = TagReference THEN images[py["image_name"]] ELSE tags[r]]
                   ELSE tags
    /\ UNCHANGED <<env, py, call, out, assets, archive, s3, sm_models, endpoints,
                   src_version, images, logged_in, containers, ecr, desired_count>>

\* cell 32, line 2: !eval $(aws ecr get-login --no-include-email)
RegistryLogin ==
    /\ pc = "login"
    /\ \E ok \in Outcomes(TRUE) :
        /\ Shell("login", ok, << >>)
        /\ logged_in' = (logged_in \/ ok)
    /\ UNCHANGED <<env, py, call, out, assets, archive, s3, sm_models, endpoints,
                   src_version, images, tags, containers, ecr, desired_count>>

\* cell 32, line 3: !docker push <reference>
PushImage ==
    /\ pc = "push"
    /\ \E ok \in Outcomes(PushReference \in DOMAIN tags /\ logged_in) :
        /\ Shell("push", ok, <<PushReference>>)
        /\ ecr' = IF ok
                  THEN [r \in DOMAIN ecr \cup {PushReference} |->
                          IF r = PushReference THEN tags[PushReference] ELSE ecr[r]]
                  ELSE ecr
    /\ UNCHANGED <<env, py, call, out, assets, archive, s3, sm_models, endpoints,
                   src_version, images, tags, logged_in, containers, desired_count>>

----------------------------------------------------------------------------
(* Service start.                                                          *)

\* cell 35: cluster and service from the environment
ReadEcsEnv ==
    /\ pc = "ecs_env"
    /\ Python("ecs_env", TRUE, << >>)
    /\ py' = [n \in DOMAIN py \cup {"DASHBOARD_ECS_CLUSTER", "DASHBOARD_ECR_SERVICE"} |->
                IF n \in {"DASHBOARD_ECS_CLUSTER", "DASHBOARD_ECR_SERVICE"}
                THEN env[n] ELSE py[n]]
    /\ UNCHANGED <<env, call, out, world>>

\* cells 37 and 46: !aws ecs update-service --cluster ... --service ... --desired-count n
UpdateService(l, n) ==
    /\ pc = l
    /\ \E ok \in Outcomes(TRUE) :
        /\ Shell(l, ok, <<py["DASHBOARD_ECS_CLUSTER"], py["DASHBOARD_ECR_SERVICE"], n>>)
        /\ desired_count' = IF ok THEN n ELSE desired_count
    /\ UNCHANGED <<env, py, call, out, assets, archive, s3, sm_models, endpoints,
                   src_version, images, tags, logged_in, containers, ecr>>

\* a scale-up to a single task
ScaleUpSingleTask == UpdateService("scale_up", ScaleUpCount - 1)

\* cell 37: --desired-count 2
ScaleUp == UpdateService("scale_up", ScaleUpCount)

\* cell 39: DASHBOARD_URL and DASHBOARD_ALB from the environment
ReadUrlEnv ==
    /\ pc = "url_env"
    /\ Python("url_env", TRUE, << >>)
    /\ py' = [n \in DOMAIN py \cup {"DASHBOARD_URL", "DASHBOARD_ALB"} |->
                IF n \in {"DASHBOARD_URL", "DASHBOARD_ALB"} THEN env[n] ELSE py[n]]
    /\ UNCHANGED <<env, call, out, world>>

\* the warning with the two names the wrong way round
WarnCnameSwapped ==
    /\ pc = "cname"
    /\ Python("cname", TRUE, << >>)
    /\ out' = out
              \o (IF py["DASHBOARD_URL"] # py["DASHBOARD_ALB"]
                  THEN <<[cell |-> CellOf("cname"), kind |-> "warning",
                          text |-> <<"Add CNAME record on your domain before continuing!",
                                     "from: ", py["DASHBOARD_ALB"],
                                     "to: ", py["DASHBOARD_URL"],
                                     "Otherwise you will see 'An error was encountered with the requested page' with Amazon Cognito.">>]>>
                  ELSE << >>)
              \o <<[cell |-> CellOf("cname"), kind |-> "print",
                    text |-> <<"DASHBOARD_URL: https://", py["DASHBOARD_URL"]>>]>>
    /\ UNCHANGED <<env, py, call, world>>

\* cell 41: the warning, when the two differ, and the printed line
WarnCname ==
    /\ pc = "cname"
    /\ Python("cname", TRUE, << >>)
    /\ out' = out
              \o (IF py["DASHBOARD_URL"] # py["DASHBOARD_ALB"]
                  THEN <<[cell |-> CellOf("cname"), kind |-> "warning",
                          text |-> <<"Add CNAME record on your domain before continuing!",
                                     "from: ", py["DASHBOARD_URL"],
                                     "to: ", py["DASHBOARD_ALB"],
                                     "Otherwise you will see 'An error was encountered with the requested page' with Amazon Cognito.">>]>>
                  ELSE << >>)
              \o <<[cell |-> CellOf("cname"), kind |-> "print",
                    text |-> <<"DASHBOARD_URL: https://", py["DASHBOARD_URL"]>>]>>
    /\ UNCHANGED <<env, py, call, world>>

----------------------------------------------------------------------------
(* Clean up.                                                               *)

\* the scale-up command copied into the clean-up cell unchanged
ScaleDownForgotten == UpdateService("scale_down", ScaleUpCount)

\* cell 46: --desired-count 0
ScaleDown == UpdateService("scale_down", ScaleDownCount)

\* cell 47, line 1: predictor.delete_endpoint()
DeleteEndpoint ==
    /\ pc = "delete_endpoint"
    /\ LET p == py["predictor"]
       IN  \E ok \in Outcomes(\E e \in endpoints : e.name = p.endpoint) :
            /\ Python("delete_endpoint", ok, <<p.endpoint>>)
            /\ endpoints' = IF ok THEN {e \in endpoints : e.name # p.endpoint} ELSE endpoints
    /\ UNCHANGED <<env, py, call, out, assets, archive, s3, sm_models, src_version,
                   images, tags, logged_in, containers, ecr, desired_count>>

\* cell 47, line 2: predictor.delete_model()
DeleteModel ==
    /\ pc = "delete_model"
    /\ LET p == py["predictor"]
       IN  \E ok \in Outcomes(p.model \in sm_models) :
            /\ Python("delete_model", ok, <<p.model>>)
            /\ sm_models' = IF ok THEN sm_models \ {p.model} ELSE sm_models
    /\ UNCHANGED <<env, py, call, out, assets, archive, s3, endpoints, src_version,
                   images, tags, logged_in, containers, ecr, desired_count>>

----------------------------------------------------------------------------
(* The run of the notebook.                                                *)

Next ==
    \/ Import \/ LoadDotenv \/ FetchTokenizer \/ FetchModel
    \/ ReadBucket \/ TarArchive \/ UploadArchive
    \/ DefineModel \/ Deploy
    \/ SetImageName \/ BuildDev \/ SetPort
    \/ DevPrepare \/ DevEcho \/ DevRunStart \/ EditSource \/ DevInterrupt
    \/ Rebuild \/ TestPrepare \/ TestEcho \/ TestRunStart \/ TestInterrupt
    \/ ReadRegistryEnv \/ TagImage \/ RegistryLogin \/ PushImage
    \/ ReadEcsEnv \/ ScaleUp \/ ReadUrlEnv \/ WarnCname
    \/ ScaleDown \/ DeleteEndpoint \/ DeleteModel

Spec == Init /\ [][Next]_vars

----------------------------------------------------------------------------
(* The helpers on their own: the two cells that call them, and a call with *)
(* any arguments, for every port and image name.                           *)

InitUtils ==
    /\ env \in {e \in Environments : e.DASHBOARD_S3_BUCKET = "bucket-a"
                                     /\ e.DASHBOARD_SAGEMAKER_MODEL = "model-a"
                                     /\ e.DASHBOARD_URL = e.DASHBOARD_ALB}
    /\ pc = "utils"
    /\ Fresh

\* port = ...; image_name = ...
ChooseInputs ==
    /\ pc = "utils"
    /\ \E p \in Ports, i \in ImageNames :
        py' = [n \in {"port", "image_name"} |-> IF n = "port" THEN p ELSE i]
    /\ call' = NoCall
    /\ out' = << >>
    /\ UNCHANGED <<env, pc, log, world>>

Prepared == pc = "utils" /\ {"port", "image_name"} \subseteq DOMAIN py

CallAsDev == Prepared /\ PrepareDev /\ out' = << >> /\ UNCHANGED <<env, pc, log, world>>

CallAsTest == Prepared /\ PrepareTest /\ out' = << >> /\ UNCHANGED <<env, pc, log, world>>

CallWith ==
    /\ Prepared
    /\ \E d \in MountDirs, g \in BOOLEAN :
        LET a == [site |-> "any", port |-> py["port"], image |-> py["image_name"],
                  dir |-> d, debug |-> g]
        IN  /\ BindRun(get_dashboard_url(py["port"]), CommandFor(a))
            /\ call' = a
    /\ out' = << >>
    /\ UNCHANGED <<env, pc, log, world>>

\* line 3 of either cell, after its lines 1-2
ShowUrl ==
    /\ Prepared
    /\ call.site # "none"
    /\ out' = <<Shown(IF call.site = "test" THEN "test_echo" ELSE "dev_echo")>>
    /\ UNCHANGED <<env, pc, log, py, call, world>>

NextUtils == ChooseInputs \/ CallAsDev \/ CallAsTest \/ CallWith \/ ShowUrl

SpecUtils == InitUtils /\ [][NextUtils]_vars

----------------------------------------------------------------------------
(* What the run has done so far.                                           *)

AllOk == \A i \in 1..Len(log) : log[i].ok
Ran(l) == \E i \in 1..Len(log) : log[i].op = l
Succeeded(l) == \E i \in 1..Len(log) : log[i].op = l /\ log[i].ok
Before(a, b) ==
    \A j \in 1..Len(log) : log[j].op = b => \E i \in 1..(j - 1) : log[i].op = a
StatementsOf(k) == {Statements[i].l : i \in {j \in 1..Len(Statements) : Statements[j].step = k}}
Steps == 1..8

----------------------------------------------------------------------------
(* C1: in a run in which every statement succeeds, the eight steps happen  *)
(* in the order configuration, fetch, package and upload, define and       *)
(* deploy, build and run locally, push, scale up, tear down; a step starts *)
(* only when every statement of the step before it has run and its local   *)
(* container run is over; the upload precedes the deploy, the deploy the   *)
(* first build, the push the scale-up, the scale-up the teardown; and the  *)
(* finished run has gone through all eight.                                *)
C1_StepsInOrder ==
    AllOk =>
        /\ \A i, j \in 1..Len(log) :
              i < j => StepOf(log[i].op) <= StepOf(log[j].op)
        /\ \A j \in 1..Len(log) : \A k \in Steps :
              StepOf(log[j].op) = k + 1 =>
                 \A l \in StatementsOf(k) : \E i \in 1..(j - 1) : log[i].op = l
        /\ (pc \in StatementsOf(6) \cup StatementsOf(7) \cup StatementsOf(8)) => containers = {}
        /\ Before("upload", "deploy")
        /\ Before("deploy", "build")
        /\ Before("build", "rebuild")
        /\ Before("push", "scale_up")
        /\ Before("scale_up", "scale_down")
        /\ pc = "done" => \A k \in Steps : \A l \in StatementsOf(k) : Ran(l)

C1_Witness == pc = "done" /\ AllOk /\ Len(log) = Len(Statements)

(* C2: when the clean-up cells have run at the end of a run in which every *)
(* statement succeeded, the desired count of the service is 0, the         *)
(* endpoint the notebook deployed is gone and so is its model.             *)
C2_TornDown ==
    (pc = "done" /\ AllOk) =>
        /\ desired_count = 0
        /\ ~(\E e \in endpoints : e.name = py["predictor"].endpoint)
        /\ py["predictor"].model \notin sm_models
        /\ endpoints = {}
        /\ sm_models = {}

C2_Witness ==
    /\ pc = "done" /\ AllOk
    /\ Succeeded("deploy") /\ Succeeded("scale_up") /\ Succeeded("delete_model")

(* C3: a statement that fails ends its cell: no statement after it in the  *)
(* same cell is executed, for shell commands as for SDK calls.             *)
C3_FailureEndsCell ==
    \A i \in 1..Len(log) :
        ~log[i].ok => \A j \in (i + 1)..Len(log) : log[j].cell # log[i].cell

(* C4: one statement at a time.  While a local container run is in         *)
(* progress the kernel is inside the docker run statement that started it, *)
(* and no step starts a build, tag, login, push, service update or delete  *)
(* in a state where a local container is running.                          *)
RemoteCommands ==
    {"build", "rebuild", "tag", "login", "push", "scale_up", "scale_down",
     "delete_endpoint", "delete_model"}

C4_OneAtATime ==
    [][ /\ containers # {} => (pc \in {"dev_run", "test_run"} /\ Issued(pc))
        /\ Len(log') <= Len(log) + 1
        /\ (Len(log') > Len(log) /\ log'[Len(log')].op \in RemoteCommands) => containers = {}
      ]_vars

C4_Witness ==
    /\ Succeeded("dev_run") /\ Succeeded("test_run")
    /\ Ran("push") /\ Ran("scale_up") /\ Ran("scale_down")
    /\ containers = {}

(* C5: the endpoint is deployed on one instance of type ml.c5.large.       *)
C5_SingleLargeInstance ==
    /\ \A e \in endpoints : e.instance_type = "ml.c5.large" /\ e.count = 1
    /\ \A i \in 1..Len(log) :
          log[i].op = "deploy" => (log[i].arg[2] = "ml.c5.large" /\ log[i].arg[3] = 1)

(* C6, as written: the desired count is 0 until the scale-up command, 2    *)
(* from the scale-up command until the clean-up command, 0 afterwards, and *)
(* never anything but 0 or 2.                                              *)
C6_CountFollowsCommands ==
    /\ desired_count \in {0, 2}
    /\ ~Ran("scale_up") => desired_count = 0
    /\ (Ran("scale_up") /\ ~Ran("scale_down")) => desired_count = 2
    /\ Ran("scale_down") => desired_count = 0

(* C6, amended: the desired count is 0 until a scale-up command succeeds,  *)
(* 2 from then until the clean-up command succeeds, 0 afterwards, and      *)
(* never anything but 0 or 2; a command that fails leaves it as it was.    *)
C6_CountFollowsSuccessfulCommands ==
    /\ desired_count \in {0, 2}
    /\ ~Succeeded("scale_up") => desired_count = 0
    /\ (Succeeded("scale_up") /\ ~Succeeded("scale_down")) => desired_count = 2
    /\ Succeeded("scale_down") => desired_count = 0
    /\ (Ran("scale_up") /\ ~Succeeded("scale_up") /\ ~Ran("scale_down")) => desired_count = 0
    /\ (Succeeded("scale_up") /\ Ran("scale_down") /\ ~Succeeded("scale_down"))
          => desired_count = 2

C6_Witness ==
    /\ Succeeded("dev_run") /\ Succeeded("push") /\ Succeeded("scale_up")
    /\ ~Ran("scale_down")
    /\ desired_count = 2

(* C7: every image build, the first and the rebuild, passes as             *)
(* DASHBOARD_SAGEMAKER_MODEL the name under which the endpoint was         *)
(* deployed, which is the value of that environment variable.              *)
C7_BuildNamesEndpoint ==
    /\ \A i \in 1..Len(log) :
          log[i].op \in {"build", "rebuild"} =>
             /\ log[i].arg[2] = env.DASHBOARD_SAGEMAKER_MODEL
             /\ \E j \in 1..(i - 1) :
                   log[j].op = "deploy" /\ log[j].ok /\ log[j].arg[1] = log[i].arg[2]
             /\ \E j \in 1..(i - 1) :
                   log[j].op = "define" /\ log[j].ok /\ log[j].arg[1] = log[i].arg[2]
    /\ \A n \in DOMAIN images : images[n].model = env.DASHBOARD_SAGEMAKER_MODEL

C7_Witness == Succeeded("build") /\ Succeeded("rebuild") /\ "dashboard" \in DOMAIN images

(* C8: the model_data of the model definition is the bucket and key the    *)
(* archive was uploaded to, and the upload has completed when the model is *)
(* defined and when it is deployed.                                        *)
C8_ModelDataUploaded ==
    \A i \in 1..Len(log) :
        (log[i].op \in {"define", "deploy"} /\ log[i].ok) =>
            \E j \in 1..(i - 1) :
                /\ log[j].op = "upload" /\ log[j].ok
                /\ \A d \in 1..Len(log) :
                      (log[d].op = "define" /\ log[d].ok) => log[d].arg[2] = log[j].arg

(* C9: the command get_docker_run_command builds publishes the given local *)
(* port to the container port and runs the given image; it mounts a volume *)
(* exactly when a local directory is given and sets debug exactly when     *)
(* asked to.  The development cell's command has both, the testing cell's  *)
(* has neither.                                                            *)
C9_RunCommand ==
    call.site # "none" =>
        LET c == py["command"]
        IN  /\ PublishedAt(c) # {}
            /\ CommandPort(c) = call.port
            /\ CommandContainerPort(c) = ContainerPort
            /\ CommandImage(c) = call.image
            /\ HasMount(c) <=> call.dir # NoMount
            /\ HasMount(c) => MountedDir(c) = call.dir
            /\ HasDebug(c) <=> call.debug
            /\ call.site = "dev" => (HasMount(c) /\ HasDebug(c))
            /\ call.site = "test" => (~HasMount(c) /\ ~HasDebug(c))
            /\ call.site \in {"dev", "test"} =>
                  (call.port = py["port"] /\ call.image = py["image_name"])

C9_Witness ==
    /\ call.site = "dev"
    /\ call.port # DefaultPort
    /\ HasMount(py["command"]) /\ HasDebug(py["command"])

(* C10: the URL get_dashboard_url returns for a port contains that port,   *)
(* and the port of the URL a cell shows is the port its docker run command *)
(* publishes.                                                              *)
C10_UrlPort ==
    /\ call.site # "none" =>
          /\ Contains(py["url"], Digits(py["port"]))
          /\ UrlHasPort(py["url"])
          /\ UrlPort(py["url"]) = py["port"]
          /\ UrlPort(py["url"]) = CommandPort(py["command"])
    /\ \A i \in 1..Len(out) :
          out[i].kind = "Dashboard URL" =>
             (UrlHasPort(out[i].text) /\ UrlPort(out[i].text) = CommandPort(py["command"]))

C10_Witness ==
    /\ call.site = "test"
    /\ py["port"] # DefaultPort
    /\ Len(out) > 0
    /\ UrlPort(out[1].text) = py["port"]

(* C11: the image pushed to the registry is the rebuilt image, with the    *)
(* latest dashboard source: the rebuild precedes the tag, the tag precedes *)
(* the registry login and the push, no build runs between the tag and the  *)
(* push, and the reference pushed is the reference tagged (same account    *)
(* id, region, repository, and the tag latest).                            *)
C11_PushedIsRebuilt ==
    /\ Before("rebuild", "tag")
    /\ Before("tag", "login")
    /\ Before("tag", "push")
    /\ \A i, j \in 1..Len(log) :
          (log[i].op = "tag" /\ log[j].op = "push") =>
             /\ i < j
             /\ ~(\E k \in (i + 1)..(j - 1) : log[k].op \in {"build", "rebuild"})
             /\ log[j].arg[1] = log[i].arg[2]
             /\ log[j].arg[1][Len(log[j].arg[1])] = "latest"
    /\ \A j \in 1..Len(log) :
          (log[j].op = "push" /\ log[j].ok) =>
             /\ \E i \in 1..(j - 1) : log[i].op = "rebuild" /\ log[i].ok
             /\ log[j].arg[1] \in DOMAIN ecr
             /\ ecr[log[j].arg[1]].src = src_version
             /\ ecr[log[j].arg[1]].model = env.DASHBOARD_SAGEMAKER_MODEL

(* C12: the CNAME warning is emitted exactly when DASHBOARD_URL differs    *)
(* from DASHBOARD_ALB; it names DASHBOARD_URL after "from" and             *)
(* DASHBOARD_ALB after "to"; the line DASHBOARD_URL: https://<url> is      *)
(* printed in both cases.                                                  *)
Emitted(kind) == {i \in 1..Len(out) : out[i].kind = kind}
Named(text, label) == text[(CHOOSE i \in 1..Len(text) : text[i] = label) + 1]

C12_CnameWarning ==
    /\ ~Ran("cname") => (Emitted("warning") = {} /\ Emitted("print") = {})
    /\ Ran("cname") =>
          /\ Emitted("warning") # {} <=> env.DASHBOARD_URL # env.DASHBOARD_ALB
          /\ Cardinality(Emitted("warning")) <= 1
          /\ \A i \in Emitted("warning") :
                /\ Named(out[i].text, "from: ") = env.DASHBOARD_URL
                /\ Named(out[i].text, "to: ") = env.DASHBOARD_ALB
          /\ Cardinality(Emitted("print")) = 1
          /\ \A i \in Emitted("print") :
                /\ out[i].text = <<"DASHBOARD_URL: https://", env.DASHBOARD_URL>>
                /\ \A w \in Emitted("warning") : w < i

C12_Witness ==
    /\ Ran("cname")
    /\ env.DASHBOARD_URL # env.DASHBOARD_ALB
    /\ Emitted("warning") # {}
    /\ Emitted("print") # {}

====
